---- MODULE Spec2Model ----
(***************************************************************************)
(* A model of binary/reader.py of wasm-python-book: the WasmReader cursor, *)
(* its primitive reads, the per-construct decoders, the section loop       *)
(* (read_sections) and the module entry points (read_module, decode).      *)
(*                                                                         *)
(* Bytes are integers 0..255.  Values decoded by read_var_u32 range over   *)
(* 0..2^32-1 and Python adds them without overflow, so they are kept as    *)
(* pairs [hi, lo] in base 2^16 (the value is hi * 2^16 + lo).              *)
(***************************************************************************)
EXTENDS Integers, Sequences, FiniteSets, TLC

VARIABLES
    input,          \* the buffer handed to decode / to the decoder under call
    data,           \* WasmReader.data: the bytes not yet consumed
    pc,             \* position in decode / read_module / read_sections
    module,         \* the Module object built by read_module
    prev_sec_id,    \* read_sections local
    sec_id,         \* read_sections local
    n,              \* read_sections local: the declared payload length
    remaining_before_read, \* read_sections local
    err,            \* the exception raised (NoErr when none)
    secs_read,      \* history: the numbered section ids accepted so far
    fn,             \* decoder harness: the decoder that was called
    ret             \* decoder harness: the value the decoder returned

vars == <<input, data, pc, module, prev_sec_id, sec_id, n,
          remaining_before_read, err, secs_read, fn, ret>>

-----------------------------------------------------------------------------
(* Wide naturals: Python integers beyond 31 bits.                          *)

B16 == 2^16

Wide(k) == [hi |-> k \div B16, lo |-> k % B16]

WZero == [hi |-> 0, lo |-> 0]

WAdd(a, b) ==
    LET s == a.lo + b.lo
    IN  [hi |-> a.hi + b.hi + (s \div B16), lo |-> s % B16]

WGE(a, b) == a.hi > b.hi \/ (a.hi = b.hi /\ a.lo >= b.lo)

WIsZero(a) == a.hi = 0 /\ a.lo = 0

WDec(a) == IF a.lo > 0 THEN [hi |-> a.hi, lo |-> a.lo - 1]
                       ELSE [hi |-> a.hi - 1, lo |-> B16 - 1]

\* a wide value that is below 2^31 and its integer
Fits(a) == a.hi < 2^15

ToInt(a) == a.hi * B16 + a.lo

\* 1 << k
WShl1(k) == IF k < 16 THEN [hi |-> 0, lo |-> 2^k] ELSE [hi |-> 2^(k - 16), lo |-> 0]

-----------------------------------------------------------------------------
(* Errors and results.  A decoder applied to the remaining bytes d yields  *)
(* [d: the bytes remaining when it returned or raised, v: its value,       *)
(*  e: the exception raised or NoErr].                                     *)

NoErr == [kind |-> "none", arg |-> 0]

Raise(kind, arg) == [kind |-> kind, arg |-> arg]

ErrUnexpectedEnd == Raise("ErrUnexpectedEnd", 0)

Ok(d, v) == [d |-> d, v |-> v, e |-> NoErr]

Fail(d, e) == [d |-> d, v |-> <<>>, e |-> e]

IsOk(r) == r.e = NoErr

Drop(d, k) == SubSeq(d, k + 1, Len(d))

Take(d, k) == SubSeq(d, 1, k)

-----------------------------------------------------------------------------
(* Constants of binary/module.py and binary/types.py.                      *)

MagicNumber == 1836278016
Version == 1

SecCustomID == 0
SecTypeID == 1
SecImportID == 2
SecFuncID == 3
SecTableID == 4
SecMemID == 5
SecGlobalID == 6
SecExportID == 7
SecStartID == 8
SecElemID == 9
SecCodeID == 10
SecDataID == 11

ImportTagFunc == 0
ImportTagTable == 1
ImportTagMem == 2
ImportTagGlobal == 3

ExportTagFunc == 0
ExportTagTable == 1
ExportTagMem == 2
ExportTagGlobal == 3

ValTypeI32 == 127
ValTypeI64 == 126
ValTypeF32 == 125
ValTypeF64 == 124

FtTag == 96
FuncRef == 112
MutConst == 0
MutVar == 1

\* Module(): the fields read_module and read_sections use
NewModule ==
    [magic |-> 0, version |-> 0, custom_secs |-> <<>>, type_sec |-> <<>>,
     import_sec |-> <<>>, func_sec |-> <<>>, table_sec |-> <<>>,
     mem_sec |-> <<>>, global_sec |-> <<>>, export_sec |-> <<>>,
     start_sec |-> <<>>, elem_sec |-> <<>>, code_sec |-> <<>>,
     data_sec |-> <<>>]

-----------------------------------------------------------------------------
(* Sequencing: a call that raised ends the caller with the same exception; *)
(* otherwise the caller goes on with the result r (r.d the bytes left,     *)
(* r.v the value).                                                         *)

Then(r, K(_)) == IF IsOk(r) THEN K(r) ELSE r

-----------------------------------------------------------------------------
(* binary/leb128.py decode_var_uint: 7 bits a byte, low group first, the   *)
(* high bit continues; at most size bits.                                  *)

LebGroup(g, i) ==
    IF 7 * i >= 16 THEN [hi |-> g * 2^(7 * i - 16), lo |-> 0]
                   ELSE Wide(g * 2^(7 * i))

RECURSIVE LebLoop(_, _, _, _)
LebLoop(d, size, i, acc) ==
    IF i >= Len(d) THEN Fail(d, ErrUnexpectedEnd)
    ELSE IF i = size \div 7 /\ d[i + 1] >= 128
         THEN Fail(d, Raise("int too long", 0))
    ELSE IF i = size \div 7 /\ (d[i + 1] \div 2^(size - i * 7)) > 0
         THEN Fail(d, Raise("int too large", 0))
    ELSE IF d[i + 1] < 128
         THEN [d |-> d, v |-> WAdd(acc, LebGroup(d[i + 1] % 128, i)),
               w |-> i + 1, e |-> NoErr]
    ELSE LebLoop(d, size, i + 1, WAdd(acc, LebGroup(d[i + 1] % 128, i)))

decode_var_uint(d, size) == LebLoop(d, size, 0, WZero)

-----------------------------------------------------------------------------
(* The primitive reads of WasmReader.                                      *)

remaining(d) == Len(d)

read_byte(d) ==
    IF Len(d) < 1 THEN Fail(d, ErrUnexpectedEnd)
    ELSE Ok(Drop(d, 1), d[1])

\* int.from_bytes(little) then ctypes.c_int32
c_int32_le(b) ==
    b[1] + b[2] * 2^8 + b[3] * 2^16
        + (IF b[4] >= 128 THEN b[4] - 256 ELSE b[4]) * 2^24

read_u32(d) ==
    IF Len(d) < 4 THEN Fail(d, ErrUnexpectedEnd)
    ELSE Ok(Drop(d, 4), c_int32_le(Take(d, 4)))

\* self.data = self.data[w:]
Advance(d, r) == IF IsOk(r) THEN Ok(Drop(d, r.w), r.v) ELSE Fail(d, r.e)

read_var_u32(d) == Advance(d, decode_var_uint(d, 32))

read_bytes(d) ==
    Then(read_var_u32(d), LAMBDA c :
        IF ~Fits(c.v) \/ Len(c.d) < ToInt(c.v) THEN Fail(c.d, ErrUnexpectedEnd)
        ELSE Ok(Drop(c.d, ToInt(c.v)), Take(c.d, ToInt(c.v))))

\* bytes.decode('utf-8'): the code points, or ok = FALSE
IsCont(bs, i) == i <= Len(bs) /\ bs[i] >= 128 /\ bs[i] <= 191

Utf8Bad == [ok |-> FALSE, cps |-> <<>>]

RECURSIVE Utf8(_, _, _)
Utf8(bs, i, acc) ==
    IF i > Len(bs) THEN [ok |-> TRUE, cps |-> acc]
    ELSE IF bs[i] < 128 THEN Utf8(bs, i + 1, Append(acc, bs[i]))
    ELSE IF bs[i] >= 194 /\ bs[i] <= 223
         THEN IF IsCont(bs, i + 1)
              THEN Utf8(bs, i + 2,
                        Append(acc, (bs[i] - 192) * 64 + (bs[i + 1] - 128)))
              ELSE Utf8Bad
    ELSE IF bs[i] >= 224 /\ bs[i] <= 239
         THEN IF /\ IsCont(bs, i + 1) /\ IsCont(bs, i + 2)
                 /\ (bs[i] = 224 => bs[i + 1] >= 160)
                 /\ (bs[i] = 237 => bs[i + 1] <= 159)
              THEN Utf8(bs, i + 3,
                        Append(acc, (bs[i] - 224) * 4096 + (bs[i + 1] - 128) * 64
                                    + (bs[i + 2] - 128)))
              ELSE Utf8Bad
    ELSE IF bs[i] >= 240 /\ bs[i] <= 244
         THEN IF /\ IsCont(bs, i + 1) /\ IsCont(bs, i + 2) /\ IsCont(bs, i + 3)
                 /\ (bs[i] = 240 => bs[i + 1] >= 144)
                 /\ (bs[i] = 244 => bs[i + 1] <= 143)
              THEN Utf8(bs, i + 4,
                        Append(acc, (bs[i] - 240) * 262144
                                    + (bs[i + 1] - 128) * 4096
                                    + (bs[i + 2] - 128) * 64 + (bs[i + 3] - 128)))
              ELSE Utf8Bad
    ELSE Utf8Bad

\* the name as str, or the exception
Decoded(d, u) ==
    IF u.ok THEN Ok(d, u.cps) ELSE Fail(d, Raise("malformed UTF-8 encoding", 0))

read_name(d) ==
    Then(read_bytes(d), LAMBDA b : Decoded(b.d, Utf8(b.v, 1, <<>>)))

-----------------------------------------------------------------------------
(* Type and descriptor decoders.  Python evaluates constructor arguments   *)
(* left to right, so every field is read before the check that follows     *)
(* the constructor call.                                                   *)

read_val_type(d) ==
    Then(read_byte(d), LAMBDA vt :
        IF vt.v \notin {ValTypeI32, ValTypeI64, ValTypeF32, ValTypeF64}
        THEN Fail(vt.d, Raise("malformed value type", vt.v))
        ELSE vt)

RECURSIVE ValTypesLoop(_, _, _)
ValTypesLoop(d, k, vec) ==
    IF WIsZero(k) THEN Ok(d, vec)
    ELSE Then(read_val_type(d), LAMBDA r :
             ValTypesLoop(r.d, WDec(k), Append(vec, r.v)))

read_val_types(d) ==
    Then(read_var_u32(d), LAMBDA c : ValTypesLoop(c.d, c.v, <<>>))

read_func_type(d) ==
    Then(read_byte(d), LAMBDA t :
    Then(read_val_types(t.d), LAMBDA p :
    Then(read_val_types(p.d), LAMBDA q :
        IF t.v # FtTag THEN Fail(q.d, Raise("invalid functype tag", t.v))
        ELSE Ok(q.d, [tag |-> t.v, param_types |-> p.v, result_types |-> q.v]))))

\* Limits.max is <<>> when absent and <<max>> when read
read_limits(d) ==
    Then(read_byte(d), LAMBDA t :
    Then(read_var_u32(t.d), LAMBDA m :
        IF t.v = 1
        THEN Then(read_var_u32(m.d), LAMBDA x :
                 Ok(x.d, [tag |-> t.v, min |-> m.v, max |-> <<x.v>>]))
        ELSE Ok(m.d, [tag |-> t.v, min |-> m.v, max |-> <<>>])))

read_table_type(d) ==
    Then(read_byte(d), LAMBDA t :
    Then(read_limits(t.d), LAMBDA l :
        IF t.v # FuncRef THEN Fail(l.d, Raise("invalid elemtype", t.v))
        ELSE Ok(l.d, [elem_type |-> t.v, limits |-> l.v])))

read_global_type(d) ==
    Then(read_val_type(d), LAMBDA t :
    Then(read_byte(t.d), LAMBDA m :
        IF m.v \notin {MutConst, MutVar}
        THEN Fail(m.d, Raise("malformed mutability", m.v))
        ELSE Ok(m.d, [val_type |-> t.v, mut |-> m.v])))

RECURSIVE IndicesLoop(_, _, _)
IndicesLoop(d, k, vec) ==
    IF WIsZero(k) THEN Ok(d, vec)
    ELSE Then(read_var_u32(d), LAMBDA r :
             IndicesLoop(r.d, WDec(k), Append(vec, r.v)))

read_indices(d) ==
    Then(read_var_u32(d), LAMBDA c : IndicesLoop(c.d, c.v, <<>>))

\* the end opcode that read_expr scans for
EndOpcode == 11

\* read_expr returns None
None == <<>>

\* faulty variant: the end opcode is looked at and left in the buffer
RECURSIVE read_expr_peek(_)
read_expr_peek(d) ==
    Then(read_byte(d), LAMBDA b :
        IF b.v # EndOpcode THEN read_expr_peek(b.d) ELSE Ok(d, None))

RECURSIVE read_expr(_)
read_expr(d) ==
    Then(read_byte(d), LAMBDA b :
        IF b.v # EndOpcode THEN read_expr(b.d) ELSE Ok(b.d, None))

\* desc.func_type, desc.table, desc.mem or desc.global_type is set
WithTag(t, x) == Then(x, LAMBDA r : Ok(r.d, [tag |-> t.v, desc |-> r.v]))

read_import_desc(d) ==
    Then(read_byte(d), LAMBDA t :
        IF t.v = ImportTagFunc THEN WithTag(t, read_var_u32(t.d))
        ELSE IF t.v = ImportTagTable THEN WithTag(t, read_table_type(t.d))
        ELSE IF t.v = ImportTagMem THEN WithTag(t, read_limits(t.d))
        ELSE IF t.v = ImportTagGlobal THEN WithTag(t, read_global_type(t.d))
        ELSE Fail(t.d, Raise("invalid import desc tag", t.v)))

read_import(d) ==
    Then(read_name(d), LAMBDA m :
    Then(read_name(m.d), LAMBDA nm :
    Then(read_import_desc(nm.d), LAMBDA x :
        Ok(x.d, [module |-> m.v, name |-> nm.v, desc |-> x.v]))))

read_export_desc(d) ==
    Then(read_byte(d), LAMBDA t :
    Then(read_var_u32(t.d), LAMBDA x :
        IF t.v \notin {ExportTagFunc, ExportTagTable, ExportTagMem, ExportTagGlobal}
        THEN Fail(x.d, Raise("invalid export desc tag", t.v))
        ELSE Ok(x.d, [tag |-> t.v, idx |-> x.v])))

read_export(d) ==
    Then(read_name(d), LAMBDA nm :
    Then(read_export_desc(nm.d), LAMBDA x :
        Ok(x.d, [name |-> nm.v, desc |-> x.v])))

\* Global(self.read_global_type(), self.read_expr()) of read_global_sec
read_global(d) ==
    Then(read_global_type(d), LAMBDA t :
    Then(read_expr(t.d), LAMBDA x :
        Ok(x.d, [type |-> t.v, init |-> x.v])))

read_elem(d) ==
    Then(read_var_u32(d), LAMBDA t :
    Then(read_expr(t.d), LAMBDA o :
    Then(read_indices(o.d), LAMBDA i :
        Ok(i.d, [table |-> t.v, offset |-> o.v, init |-> i.v]))))

read_data(d) ==
    Then(read_var_u32(d), LAMBDA m :
    Then(read_expr(m.d), LAMBDA o :
    Then(read_bytes(o.d), LAMBDA b :
        Ok(b.d, [mem |-> m.v, offset |-> o.v, init |-> b.v]))))

read_locals(d) ==
    Then(read_var_u32(d), LAMBDA c :
    Then(read_val_type(c.d), LAMBDA t :
        Ok(t.d, [n |-> c.v, type |-> t.v])))

RECURSIVE LocalsLoop(_, _, _)
LocalsLoop(d, k, vec) ==
    IF WIsZero(k) THEN Ok(d, vec)
    ELSE Then(read_locals(d), LAMBDA r :
             LocalsLoop(r.d, WDec(k), Append(vec, r.v)))

read_locals_vec(d) ==
    Then(read_var_u32(d), LAMBDA c : LocalsLoop(c.d, c.v, <<>>))

\* Code.get_local_count of binary/module.py: the sum of the groups' counts
RECURSIVE get_local_count(_)
get_local_count(locals_vec) ==
    IF locals_vec = <<>> THEN WZero
    ELSE WAdd(Head(locals_vec).n, get_local_count(Tail(locals_vec)))

\* faulty variant: the bound read as (1 << 32) - 1
LocalsLimitShiftFirst == WDec(WShl1(32))

\* the bound of read_code, written 1 << 32 - 1: Python's - binds tighter than <<
LocalsLimit == WShl1(32 - 1)

TooManyLocals(count) == WGE(count, LocalsLimit)

\* what a reader of its own over the bytes b.v did, seen from the outer
\* reader, which has consumed the bytes whatever happened in them
Inner(b, r) == IF IsOk(r) THEN Ok(b.d, [v |-> r.v, data |-> r.d]) ELSE Fail(b.d, r.e)

read_code(d) ==
    Then(read_bytes(d), LAMBDA b :
    Then(Inner(b, read_locals_vec(b.v)), LAMBDA l :
        IF TooManyLocals(get_local_count(l.v.v))
        THEN Fail(l.d, Raise("too many locals", 0))
        ELSE Ok(l.d, [locals |-> l.v.v])))

read_custom_sec(d) ==
    Then(read_bytes(d), LAMBDA b :
    Then(Inner(b, read_name(b.v)), LAMBDA nm :
        Ok(nm.d, [name |-> nm.v.v, custom_sec_bytes |-> nm.v.data])))

-----------------------------------------------------------------------------
(* Structural decoders: a var-uint count, then that many constructs.       *)

\* the construct a section of this id repeats
read_item(id, d) ==
    CASE id = SecTypeID   -> read_func_type(d)
      [] id = SecImportID -> read_import(d)
      [] id = SecTableID  -> read_table_type(d)
      [] id = SecMemID    -> read_limits(d)
      [] id = SecGlobalID -> read_global(d)
      [] id = SecExportID -> read_export(d)
      [] id = SecElemID   -> read_elem(d)
      [] id = SecCodeID   -> read_code(d)
      [] id = SecDataID   -> read_data(d)

RECURSIVE VecLoop(_, _, _, _)
VecLoop(id, d, k, vec) ==
    IF WIsZero(k) THEN Ok(d, vec)
    ELSE Then(read_item(id, d), LAMBDA r :
             VecLoop(id, r.d, WDec(k), Append(vec, r.v)))

\* read_type_sec, read_import_sec, read_table_sec, read_mem_sec,
\* read_global_sec, read_export_sec, read_elem_sec, read_code_sec, read_data_sec
read_vec_sec(id, d) ==
    Then(read_var_u32(d), LAMBDA c : VecLoop(id, c.d, c.v, <<>>))

\* start_sec is <<>> until read and <<idx>> after
read_start_sec(d) ==
    Then(read_var_u32(d), LAMBDA r : Ok(r.d, <<r.v>>))

SecField(id) ==
    CASE id = SecTypeID   -> "type_sec"
      [] id = SecImportID -> "import_sec"
      [] id = SecFuncID   -> "func_sec"
      [] id = SecTableID  -> "table_sec"
      [] id = SecMemID    -> "mem_sec"
      [] id = SecGlobalID -> "global_sec"
      [] id = SecExportID -> "export_sec"
      [] id = SecStartID  -> "start_sec"
      [] id = SecElemID   -> "elem_sec"
      [] id = SecCodeID   -> "code_sec"
      [] id = SecDataID   -> "data_sec"

\* module.<field> = <decoder>(): the field is assigned when the decoder returned
Assigned(id, m, r) ==
    [d |-> r.d, e |-> r.e,
     module |-> IF IsOk(r) THEN [m EXCEPT ![SecField(id)] = r.v] ELSE m]

read_non_custom_sec(id, m, d) ==
    Assigned(id, m,
        IF id = SecFuncID THEN read_indices(d)
        ELSE IF id = SecStartID THEN read_start_sec(d)
        ELSE read_vec_sec(id, d))

-----------------------------------------------------------------------------
(* decode: read_module over a fresh Module and a fresh WasmReader.         *)

\* faulty variant: the loop stops one byte early
SectionsRemainOffByOne(d) == remaining(d) > 1

\* the loop condition of read_sections
SectionsRemain(d) == remaining(d) > 0

\* faulty variant: a repeated section id passes
OutOfOrderStrict(id, prev) == id < prev

\* the ordering check of read_sections
OutOfOrder(id, prev) == id <= prev

\* faulty variant: only a decoder that stopped short of the declared length is caught
SizeMismatchShortOnly(rem, declared, before) ==
    IF Fits(declared) THEN rem + ToInt(declared) < before ELSE FALSE

\* the size check of read_sections: remaining() + int(n) != remaining_before_read
SizeMismatch(rem, declared, before) ==
    IF Fits(declared) THEN rem + ToInt(declared) # before ELSE TRUE

\* faulty variant: only a function section longer than the code section is caught
InconsistentLengthsOneWay(m) == Len(m.func_sec) > Len(m.code_sec)

\* the cross-check of read_module
InconsistentLengths(m) == Len(m.func_sec) # Len(m.code_sec)

\* faulty variant: the whole header is required before the magic number is looked at
HeaderTruncatedEarly(d) == remaining(d) < 8

\* the truncation checks of read_module
HeaderTruncated(d) == remaining(d) < 4

Throw(e) == err' = e /\ pc' = "raised"

\* read_module: the magic number
ReadMagic ==
    /\ pc = "magic"
    /\ IF HeaderTruncated(data)
       THEN /\ Throw(Raise("unexpected end of magic header", 0))
            /\ UNCHANGED <<data, module>>
       ELSE LET r == read_u32(data)
            IN  /\ data' = r.d
                /\ module' = [module EXCEPT !.magic = r.v]
                /\ IF r.v # MagicNumber
                   THEN Throw(Raise("magic header not detected", 0))
                   ELSE pc' = "version" /\ UNCHANGED err
    /\ UNCHANGED <<input, prev_sec_id, sec_id, n, remaining_before_read,
                   secs_read, fn, ret>>

\* read_module: the version; then read_sections starts with prev_sec_id = 0
ReadVersion ==
    /\ pc = "version"
    /\ IF HeaderTruncated(data)
       THEN /\ Throw(Raise("unexpected end of binary version", 0))
            /\ UNCHANGED <<data, module>>
       ELSE LET r == read_u32(data)
            IN  /\ data' = r.d
                /\ module' = [module EXCEPT !.version = r.v]
                /\ IF r.v # Version
                   THEN Throw(Raise("unknown binary version", r.v))
                   ELSE pc' = "sections" /\ UNCHANGED err
    /\ prev_sec_id' = 0
    /\ UNCHANGED <<input, sec_id, n, remaining_before_read, secs_read, fn, ret>>

\* read_sections: one section id is read and classified
ReadSecId ==
    /\ pc = "sections"
    /\ SectionsRemain(data)
    /\ LET r == read_byte(data)
       IN  /\ data' = r.d
           /\ sec_id' = r.v
           /\ IF r.v = SecCustomID
              THEN pc' = "custom" /\ UNCHANGED <<err, prev_sec_id, secs_read>>
              ELSE IF r.v > SecDataID
              THEN /\ Throw(Raise("malformed section id", r.v))
                   /\ UNCHANGED <<prev_sec_id, secs_read>>
              ELSE IF OutOfOrder(r.v, prev_sec_id)
              THEN /\ Throw(Raise("junk after last section, id", r.v))
                   /\ UNCHANGED <<prev_sec_id, secs_read>>
              ELSE /\ prev_sec_id' = r.v
                   /\ secs_read' = Append(secs_read, r.v)
                   /\ pc' = "noncustom"
                   /\ UNCHANGED err
    /\ UNCHANGED <<input, module, n, remaining_before_read, fn, ret>>

\* faulty variant: prev_sec_id = sec_id is done for a custom section too
ReadCustomSecSetsPrev ==
    /\ pc = "custom"
    /\ LET r == read_custom_sec(data)
       IN  /\ data' = r.d
           /\ IF IsOk(r)
              THEN /\ module' = [module EXCEPT !.custom_secs = Append(@, r.v)]
                   /\ pc' = "sections"
                   /\ UNCHANGED err
              ELSE Throw(r.e) /\ UNCHANGED module
    /\ prev_sec_id' = sec_id
    /\ UNCHANGED <<input, sec_id, n, remaining_before_read, secs_read, fn, ret>>

\* read_sections: the custom section is read and appended, and the loop continues
ReadCustomSec ==
    /\ pc = "custom"
    /\ LET r == read_custom_sec(data)
       IN  /\ data' = r.d
           /\ IF IsOk(r)
              THEN /\ module' = [module EXCEPT !.custom_secs = Append(@, r.v)]
                   /\ pc' = "sections"
                   /\ UNCHANGED err
              ELSE Throw(r.e) /\ UNCHANGED module
    /\ UNCHANGED <<input, prev_sec_id, sec_id, n, remaining_before_read,
                   secs_read, fn, ret>>

\* read_sections: the declared length is read and the section is decoded
ReadNonCustomSec ==
    /\ pc = "noncustom"
    /\ LET c == read_var_u32(data)
       IN  IF ~IsOk(c)
           THEN /\ Throw(c.e)
                /\ data' = c.d
                /\ UNCHANGED <<module, n, remaining_before_read>>
           ELSE LET s == read_non_custom_sec(sec_id, module, c.d)
                IN  /\ n' = c.v
                    /\ remaining_before_read' = remaining(c.d)
                    /\ data' = s.d
                    /\ module' = s.module
                    /\ IF IsOk(s) THEN pc' = "size_check" /\ UNCHANGED err
                                  ELSE Throw(s.e)
    /\ UNCHANGED <<input, prev_sec_id, sec_id, secs_read, fn, ret>>

\* read_sections: the size check after the decoder returned
CheckSectionSize ==
    /\ pc = "size_check"
    /\ IF SizeMismatch(remaining(data), n, remaining_before_read)
       THEN Throw(Raise("section size mismatch, id", sec_id))
       ELSE pc' = "sections" /\ UNCHANGED err
    /\ UNCHANGED <<input, data, module, prev_sec_id, sec_id, n,
                   remaining_before_read, secs_read, fn, ret>>

\* read_sections returns; read_module's cross-checks
CheckModule ==
    /\ pc = "sections"
    /\ ~SectionsRemain(data)
    /\ IF InconsistentLengths(module)
       THEN Throw(Raise("function and code section have inconsistent lengths", 0))
       ELSE IF remaining(data) > 0
       THEN Throw(Raise("junk after last section", 0))
       ELSE pc' = "ok" /\ UNCHANGED err
    /\ UNCHANGED <<input, data, module, prev_sec_id, sec_id, n,
                   remaining_before_read, secs_read, fn, ret>>

\* decode returns module, err: the module it built and the exception it caught
DecodeReturn ==
    /\ pc \in {"ok", "raised"}
    /\ pc' = "returned"
    /\ UNCHANGED <<input, data, module, prev_sec_id, sec_id, n,
                   remaining_before_read, err, secs_read, fn, ret>>

-----------------------------------------------------------------------------
(* The buffers decode is applied to.                                       *)

\* the headers tried: at each place the right byte or this one
WrongBytes == {255}

\* the most sections in a buffer
MaxSecs == 3

le32(x) == <<x % 2^8, (x \div 2^8) % 2^8, (x \div 2^16) % 2^8, (x \div 2^24) % 2^8>>

ValidHeader == le32(MagicNumber) \o le32(Version)

RECURSIVE HeaderPrefixes(_)
HeaderPrefixes(k) ==
    IF k = 0 THEN {<<>>}
    ELSE {Append(h, b) : h \in HeaderPrefixes(k - 1),
                         b \in {ValidHeader[k]} \cup WrongBytes}

Headers ==
    UNION {HeaderPrefixes(k) : k \in 0..Len(ValidHeader)}
    \cup {le32(MagicNumber) \o le32(2), le32(MagicNumber) \o le32(0)}

SectionSamples ==
    {   \* custom: name "a" and one payload byte; a name that is not UTF-8
        <<0, 3, 1, 97, 5>>, <<0, 2, 1, 255>>,
        \* type: (i32) -> (); import: "a"."b" func 0
        <<1, 5, 1, 96, 1, 127, 0>>, <<2, 7, 1, 1, 97, 1, 98, 0, 0>>,
        \* function: one index, two indices, declared too long, declared too short
        <<3, 2, 1, 0>>, <<3, 3, 2, 0, 0>>, <<3, 3, 1, 0>>, <<3, 1, 1, 0>>,
        \* table: funcref min 1; memory: min 1 max 2
        <<4, 4, 1, 112, 0, 1>>, <<5, 4, 1, 1, 1, 2>>,
        \* global: const i32, i32.const 0 end
        <<6, 6, 1, 127, 0, 65, 0, 11>>,
        \* export: "a" func 0; start: 0
        <<7, 5, 1, 1, 97, 0, 0>>, <<8, 1, 0>>,
        \* element: table 0, offset, one index
        <<9, 7, 1, 0, 65, 0, 11, 1, 0>>,
        \* code: one entry with one locals group; two entries without locals
        <<10, 5, 1, 3, 1, 1, 127>>, <<10, 5, 2, 1, 0, 1, 0>>,
        \* data: memory 0, offset, one byte
        <<11, 7, 1, 0, 65, 0, 11, 1, 42>>,
        \* an undefined id; a lone id byte
        <<12, 0>>, <<3>>
    }

RECURSIVE Bodies(_)
Bodies(k) ==
    IF k = 0 THEN {<<>>}
    ELSE LET P == Bodies(k - 1)
         IN  P \cup {p \o c : p \in P, c \in SectionSamples}

Inputs == Headers \cup {ValidHeader \o b : b \in Bodies(MaxSecs)}

Init ==
    /\ input \in Inputs
    /\ data = input
    /\ pc = "magic"
    /\ module = NewModule
    /\ prev_sec_id = 0
    /\ sec_id = 0
    /\ n = WZero
    /\ remaining_before_read = 0
    /\ err = NoErr
    /\ secs_read = <<>>
    /\ fn = "decode"
    /\ ret = None

Next ==
    \/ ReadMagic
    \/ ReadVersion
    \/ ReadSecId
    \/ ReadCustomSec
    \/ ReadNonCustomSec
    \/ CheckSectionSize
    \/ CheckModule
    \/ DecodeReturn

Spec == Init /\ [][Next]_vars

-----------------------------------------------------------------------------
(* The decoders applied on their own to a byte string.                     *)

\* the longest byte string, and the most locals groups of a code entry
MaxLen == 3
MaxGroups == 2

DecoderBytes == {0, 1, EndOpcode, 65, FtTag, FuncRef, ValTypeI32}

RECURSIVE ByteStrings(_)
ByteStrings(k) ==
    IF k = 0 THEN {<<>>}
    ELSE LET P == ByteStrings(k - 1)
         IN  P \cup {Append(p, b) : p \in P, b \in DecoderBytes}

\* locals groups of 0, 1, 2^30, 2^31 - 1, 2^31 and 2^32 - 1 locals
LocalsSamples ==
    {<<0, 127>>, <<1, 127>>, <<128, 128, 128, 128, 4, 126>>,
     <<255, 255, 255, 255, 7, 127>>, <<128, 128, 128, 128, 8, 125>>,
     <<255, 255, 255, 255, 15, 124>>}

RECURSIVE Groups(_)
Groups(k) ==
    IF k = 0 THEN {<<>>} ELSE {g \o c : g \in Groups(k - 1), c \in LocalsSamples}

\* a code entry: its length, the number of groups, the groups
CodeEntries ==
    UNION {{<<1 + Len(g), k>> \o g : g \in Groups(k)} : k \in 0..MaxGroups}

DecoderInputs == ByteStrings(MaxLen) \cup CodeEntries

InitDecoders ==
    /\ input \in DecoderInputs
    /\ data = input
    /\ pc = "call"
    /\ module = NewModule
    /\ prev_sec_id = 0
    /\ sec_id = 0
    /\ n = WZero
    /\ remaining_before_read = 0
    /\ err = NoErr
    /\ secs_read = <<>>
    /\ fn = "none"
    /\ ret = None

Called(name, r) ==
    /\ pc = "call"
    /\ pc' = "called"
    /\ fn' = name
    /\ data' = r.d
    /\ err' = r.e
    /\ ret' = r.v
    /\ UNCHANGED <<input, module, prev_sec_id, sec_id, n, remaining_before_read,
                   secs_read>>

CallReadFuncType == Called("read_func_type", read_func_type(data))

CallReadTableType == Called("read_table_type", read_table_type(data))

CallReadExportDesc == Called("read_export_desc", read_export_desc(data))

CallReadExpr == Called("read_expr", read_expr(data))

CallReadCode == Called("read_code", read_code(data))

NextDecoders ==
    \/ CallReadFuncType
    \/ CallReadTableType
    \/ CallReadExportDesc
    \/ CallReadExpr
    \/ CallReadCode

SpecDecoders == InitDecoders /\ [][NextDecoders]_vars

-----------------------------------------------------------------------------
(* Properties of decode.                                                   *)

UnexpectedEndKinds ==
    {"unexpected end of magic header", "unexpected end of binary version",
     "ErrUnexpectedEnd"}

\* the bytes 00 61 73 6D
MagicBytes == <<0, 97, 115, 109>>

\* C1 (as claimed): a buffer shorter than 8 bytes makes decode fail with an
\* unexpected-end error and with no other kind of error.
C1_ShortBufferUnexpectedEnd ==
    (pc = "returned" /\ Len(input) < 8) => err.kind \in UnexpectedEndKinds

\* C1 (amended): a buffer shorter than 8 bytes makes decode fail; with
\* "unexpected end of magic header" when it holds fewer than 4 bytes, with
\* "magic header not detected" when it holds 4 to 7 bytes that do not start
\* with the magic number, and with "unexpected end of binary version" when it
\* holds 4 to 7 bytes that start with the magic number.
C1_ShortBufferFails ==
    (pc = "returned" /\ Len(input) < 8) =>
        err.kind = IF Len(input) < 4 THEN "unexpected end of magic header"
                   ELSE IF Take(input, 4) # MagicBytes THEN "magic header not detected"
                   ELSE "unexpected end of binary version"

C1_Witness ==
    /\ pc = "returned"
    /\ Len(input) = 6
    /\ Take(input, 4) # MagicBytes
    /\ err.kind = "magic header not detected"

RECURSIVE StrictlyIncreasing(_)
StrictlyIncreasing(ids) ==
    Len(ids) < 2 \/ (ids[1] < ids[2] /\ StrictlyIncreasing(Tail(ids)))

\* C2: a numbered section id (1..11) that is not above prev_sec_id makes
\* decode fail with "junk after last section, id" when only the id byte has
\* been consumed and nothing has been stored; so the numbered ids of a decode
\* that succeeds are strictly increasing.
C2_SectionOrdering ==
    /\ [][(/\ pc = "sections" /\ data # <<>>
           /\ data[1] \in SecTypeID..SecDataID /\ data[1] <= prev_sec_id)
          => /\ pc' = "raised"
             /\ err' = Raise("junk after last section, id", data[1])
             /\ data' = Tail(data)
             /\ module' = module]_vars
    /\ [](pc \in {"sections", "ok"} => StrictlyIncreasing(secs_read))
    /\ [](secs_read # <<>> => prev_sec_id = secs_read[Len(secs_read)])

C2_Witness ==
    /\ pc = "returned"
    /\ err = Raise("junk after last section, id", SecFuncID)
    /\ secs_read = <<SecFuncID>>
    /\ module.func_sec # <<>>

\* C3: after the decoder of a numbered section returned, decode goes on
\* exactly when the bytes it consumed (remaining before minus remaining
\* after) equal the declared length, and fails with "section size mismatch"
\* naming the section otherwise, whether it consumed fewer or more; the
\* declared length and the id are the bytes of the buffer in front of the
\* payload.
C3_SectionSize ==
    /\ [][pc = "size_check" =>
            IF Fits(n) /\ remaining_before_read - Len(data) = ToInt(n)
            THEN pc' = "sections" /\ err' = NoErr
            ELSE pc' = "raised" /\ err' = Raise("section size mismatch, id", sec_id)]_vars
    /\ [](pc = "size_check" =>
            LET payload == Len(input) - remaining_before_read
            IN  /\ Fits(n) /\ input[payload] = ToInt(n)
                /\ input[payload - 1] = sec_id
                /\ Len(data) <= remaining_before_read)

C3_Witness ==
    /\ pc = "returned"
    /\ err = Raise("section size mismatch, id", SecFuncID)
    /\ remaining_before_read - Len(data) > ToInt(n)

\* C4: when the section loop has ended, decode fails with "function and code
\* section have inconsistent lengths" exactly when the function section and
\* the code section hold different numbers of entries (an absent section
\* holds none), and succeeds otherwise.
C4_FuncCodeLengths ==
    /\ [][(pc = "sections" /\ data = <<>>) =>
            IF Len(module.func_sec) # Len(module.code_sec)
            THEN /\ pc' = "raised"
                 /\ err' = Raise("function and code section have inconsistent lengths", 0)
            ELSE pc' = "ok" /\ err' = NoErr]_vars
    /\ [](pc = "ok" => Len(module.func_sec) = Len(module.code_sec))

C4_Witness ==
    /\ pc = "returned"
    /\ err.kind = "function and code section have inconsistent lengths"
    /\ Len(module.func_sec) = 2
    /\ Len(module.code_sec) = 1

\* C5: reading a custom section leaves prev_sec_id and the numbered ids read
\* as they were, and appends the section to custom_secs; the ordering error
\* never names id 0.
C5_CustomSections ==
    /\ [][(pc = "sections" /\ data # <<>> /\ data[1] = SecCustomID) =>
            (pc' = "custom" /\ prev_sec_id' = prev_sec_id /\ secs_read' = secs_read)]_vars
    /\ [][pc = "custom" =>
            /\ prev_sec_id' = prev_sec_id
            /\ secs_read' = secs_read
            /\ \/ /\ pc' = "sections"
                  /\ Len(module'.custom_secs) = Len(module.custom_secs) + 1
                  /\ SubSeq(module'.custom_secs, 1, Len(module.custom_secs))
                         = module.custom_secs
                  /\ [module' EXCEPT !.custom_secs = <<>>]
                         = [module EXCEPT !.custom_secs = <<>>]
               \/ pc' = "raised" /\ module' = module]_vars
    /\ [](err.kind = "junk after last section, id" => err.arg # SecCustomID)

\* a function section, a custom section, a code section: decoded
C5_Witness ==
    /\ pc = "ok"
    /\ input = ValidHeader \o <<3, 2, 1, 0>> \o <<0, 3, 1, 97, 5>>
                   \o <<10, 5, 1, 3, 1, 1, 127>>
    /\ secs_read = <<SecFuncID, SecCodeID>>
    /\ module.custom_secs = <<[name |-> <<97>>, custom_sec_bytes |-> <<5>>]>>

\* C6 (as claimed): decode returns a complete Module and no error, or an
\* error and a Module that holds no section: nothing decoded is visible in
\* the returned Module when the decode failed.
C6_AllOrNothing ==
    (pc = "returned" /\ err # NoErr) =>
        [module EXCEPT !.magic = 0, !.version = 0] = NewModule

\* C10: the section loop ends only with no bytes remaining, so "junk after
\* last section" (without an id) is never raised and a decode that succeeds
\* has consumed the whole buffer.
C10_NoTrailingBytes ==
    /\ err.kind # "junk after last section"
    /\ (pc = "ok" => remaining(data) = 0)
    /\ (pc = "returned" /\ err = NoErr => remaining(data) = 0)

C10_Witness ==
    /\ pc = "returned"
    /\ err = NoErr
    /\ Len(input) > Len(ValidHeader)
    /\ data = <<>>

-----------------------------------------------------------------------------
(* Properties of the decoders.                                             *)

\* C7 (as claimed): read_func_type, read_table_type and read_export_desc
\* applied to bytes whose first byte is not a valid discriminant raise their
\* own invalid-tag error, whatever follows, with exactly one byte consumed.
C7_DiscriminantFirst ==
    (pc = "called" /\ Len(input) >= 1) =>
        /\ (fn = "read_func_type" /\ input[1] # FtTag) =>
               (err = Raise("invalid functype tag", input[1])
                /\ Len(data) = Len(input) - 1)
        /\ (fn = "read_table_type" /\ input[1] # FuncRef) =>
               (err = Raise("invalid elemtype", input[1])
                /\ Len(data) = Len(input) - 1)
        /\ (fn = "read_export_desc"
            /\ input[1] \notin {ExportTagFunc, ExportTagTable, ExportTagMem,
                                ExportTagGlobal}) =>
               (err = Raise("invalid export desc tag", input[1])
                /\ Len(data) = Len(input) - 1)

\* the total of the counts of the locals groups is 2^31 or more
AtLeastTwoTo31(locals_vec) == get_local_count(locals_vec).hi >= 2^15

\* the locals groups of the code entry in front of the bytes d, decoded
EntryLocals(d) ==
    Then(read_bytes(d), LAMBDA b : read_locals_vec(b.v))

\* C8: read_code raises "too many locals" exactly when the locals groups of
\* the entry decode and the sum of their counts is 2^31 or more; an entry
\* whose groups decode and sum to less is returned.
C8_TooManyLocals ==
    (pc = "called" /\ fn = "read_code") =>
        /\ err.kind = "too many locals"
               <=> (IsOk(EntryLocals(input)) /\ AtLeastTwoTo31(EntryLocals(input).v))
        /\ (IsOk(EntryLocals(input)) /\ ~AtLeastTwoTo31(EntryLocals(input).v))
               => (err = NoErr /\ ret.locals = EntryLocals(input).v)

\* two groups, of 2^31 - 1 locals and of 1 local
C8_Witness ==
    /\ pc = "called"
    /\ fn = "read_code"
    /\ input = <<9, 2, 255, 255, 255, 255, 7, 127, 1, 127>>
    /\ err.kind = "too many locals"

\* the place of the first end opcode in bs, 0 when there is none
FirstEnd(bs) ==
    IF \E i \in 1..Len(bs) : bs[i] = 11
    THEN CHOOSE i \in 1..Len(bs) : bs[i] = 11 /\ \A j \in 1..(i - 1) : bs[j] # 11
    ELSE 0

\* C9: read_expr consumes the bytes up to and including the first 0x0B and
\* no more, and returns None; without a 0x0B it raises the unexpected-end
\* error.
C9_ExprScan ==
    (pc = "called" /\ fn = "read_expr") =>
        IF FirstEnd(input) > 0
        THEN err = NoErr /\ data = Drop(input, FirstEnd(input)) /\ ret = None
        ELSE err = ErrUnexpectedEnd

\* 0x41 0x0B 0x0B: the first 0x0B is the operand of i32.const
C9_Witness ==
    /\ pc = "called"
    /\ fn = "read_expr"
    /\ input = <<65, 11, 11>>
    /\ data = <<11>>
    /\ err = NoErr

====
